---- MODULE Spec2Model ----
(***************************************************************************)
(* Token lifecycle and resilient request layer of zoom-mcp (src/index.js): *)
(* the credential store (loadTokens / saveTokens), the token lifecycle     *)
(* (isTokenExpired / refreshAccessToken / getAccessToken), the request     *)
(* executor (zoomRequest) and the paginated collector                      *)
(* (zoomRequestAllPages).                                                  *)
(*                                                                         *)
(* JavaScript runs to completion between awaits, so one action is the code *)
(* between two suspension points of one async call.  The clock (Date.now)  *)
(* advances while a call sleeps and between calls.                         *)
(***************************************************************************)
EXTENDS Integers, Sequences, FiniteSets, TLC

\* ------------------------------------------------------------------ bounds
MaxRetries == 3
MaxCalls == 2
MaxPagesBound == 3
MaxPageFaults == 1
MaxFaults == 3
MaxConcRetries == 2
MaxConcFaults == 2
MaxLongRetries == 6

\* ------------------------------------------------------- program constants
MarginMs == 60000
MsPerSec == 1000
BackoffBaseMs == 1000
BackoffCapMs == 8000
DefaultRetries == 3
PageSize == 50

Calls == {1, 2}

\* ------------------------------------------------------------ JS values
\* A string field holds a string, U (the value undefined) or M (key absent);
\* a number field holds a number >= 0, UN (undefined) or MN (key absent).
U == "<undefined>"
M == "<missing>"
UN == -1
MN == -2

\* Reading a property: an absent key reads as undefined.
GetS(v) == IF v = M THEN U ELSE v
GetN(v) == IF v = MN THEN UN ELSE v

\* !v for a number field: 0 and undefined are falsy.
FalsyN(v) == GetN(v) = UN \/ v = 0

Min(a, b) == IF a < b THEN a ELSE b

RECURSIVE Pow2(_)
Pow2(n) == IF n <= 0 THEN 1 ELSE 2 * Pow2(n - 1)

\* ------------------------------------------------------- credential store
\* The durable record as the external authorization flow writes it.
Rec0 ==
  [access_token |-> "a0", refresh_token |-> "r0", token_type |-> "bearer",
   expires_in |-> 3600, scope |-> "s0", created_at |-> 1000]

\* A record left by an earlier run whose last renewal response carried
\* neither a refresh_token nor an expires_in.
RecOld ==
  [access_token |-> "a0", refresh_token |-> M, token_type |-> "bearer",
   expires_in |-> MN, scope |-> "s0", created_at |-> 1000]

\* A record without created_at, as an edit by hand or another tool leaves it.
RecNoCreated ==
  [access_token |-> "a0", refresh_token |-> "r0", token_type |-> "bearer",
   expires_in |-> 3600, scope |-> "s0", created_at |-> MN]

\* Mutation of JSONstringify: every falsy value is omitted, 0 included.
StringifyDropsFalsy(o) ==
  [access_token |-> IF o.access_token = U THEN M ELSE o.access_token,
   refresh_token |-> IF o.refresh_token = U THEN M ELSE o.refresh_token,
   token_type |-> IF o.token_type = U THEN M ELSE o.token_type,
   expires_in |-> IF FalsyN(o.expires_in) THEN MN ELSE o.expires_in,
   scope |-> IF o.scope = U THEN M ELSE o.scope,
   created_at |-> IF FalsyN(o.created_at) THEN MN ELSE o.created_at]

\* JSON.stringify(tokens, null, 2): a key whose value is undefined is omitted.
JSONstringify(o) ==
  [access_token |-> IF o.access_token = U THEN M ELSE o.access_token,
   refresh_token |-> IF o.refresh_token = U THEN M ELSE o.refresh_token,
   token_type |-> IF o.token_type = U THEN M ELSE o.token_type,
   expires_in |-> IF o.expires_in = UN THEN MN ELSE o.expires_in,
   scope |-> IF o.scope = U THEN M ELSE o.scope,
   created_at |-> IF o.created_at = UN THEN MN ELSE o.created_at]

\* JSON.parse of the record's text: the keys written, with their values.
JSONparse(text) == text

\* Field-for-field comparison of two credential sets, as property reads.
FieldEq(a, b) ==
  /\ GetS(a.access_token) = GetS(b.access_token)
  /\ GetS(a.refresh_token) = GetS(b.refresh_token)
  /\ GetS(a.token_type) = GetS(b.token_type)
  /\ GetN(a.expires_in) = GetN(b.expires_in)
  /\ GetS(a.scope) = GetS(b.scope)
  /\ GetN(a.created_at) = GetN(b.created_at)

\* ------------------------------------------------------- token lifecycle
\* isTokenExpired(tokens) at clock t; tokens is <<>> (null) or <<object>>.
ExpiresAt(o) == o.created_at + o.expires_in * MsPerSec

\* Mutation of isTokenExpired: no defensive test, an absent field makes the
\* comparison false.
isTokenExpiredNoGuard(tokens, t) ==
  IF tokens = <<>> THEN TRUE
  ELSE IF GetN(tokens[1].created_at) = UN \/ GetN(tokens[1].expires_in) = UN THEN FALSE
  ELSE t > ExpiresAt(tokens[1]) - MarginMs

isTokenExpired(tokens, t) ==
  IF tokens = <<>> THEN TRUE
  ELSE IF FalsyN(tokens[1].created_at) \/ FalsyN(tokens[1].expires_in) THEN TRUE
  ELSE t > ExpiresAt(tokens[1]) - MarginMs

\* The JSON bodies the token endpoint answers a renewal with.
TokenDatas ==
  { [access_token |-> "a1", refresh_token |-> "r1", token_type |-> "bearer",
     expires_in |-> 3600, scope |-> "s1"],
    [access_token |-> "a2", refresh_token |-> "r2", token_type |-> "bearer",
     expires_in |-> 61, scope |-> "s0"],
    [access_token |-> M, refresh_token |-> M, token_type |-> "bearer",
     expires_in |-> 0, scope |-> M] }

NoData ==
  [access_token |-> M, refresh_token |-> M, token_type |-> M,
   expires_in |-> MN, scope |-> M]

\* What the token endpoint does with one request.
TokenOutcomes ==
  { [kind |-> "ok", data |-> d] : d \in TokenDatas }
    \cup { [kind |-> "reject", data |-> NoData], [kind |-> "net", data |-> NoData] }

\* Mutation of NewTokens: the prior refresh_token is kept when the response
\* carries none.
NewTokensMerge(old, data, t) ==
  [access_token |-> GetS(data.access_token),
   refresh_token |-> IF GetS(data.refresh_token) = U THEN old.refresh_token
                     ELSE data.refresh_token,
   token_type |-> GetS(data.token_type),
   expires_in |-> GetN(data.expires_in),
   scope |-> GetS(data.scope),
   created_at |-> t]

\* newTokens of refreshAccessToken: built from the response and the clock;
\* nothing is taken from the credential set being renewed (old).
NewTokens(old, data, t) ==
  [access_token |-> GetS(data.access_token),
   refresh_token |-> GetS(data.refresh_token),
   token_type |-> GetS(data.token_type),
   expires_in |-> GetN(data.expires_in),
   scope |-> GetS(data.scope),
   created_at |-> t]

\* Mutation of RefreshBody: the access_token is sent as the refresh_token.
RefreshBodyAccessToken(tokens) == GetS(tokens.access_token)

\* body of the renewal request: refresh_token: tokens.refresh_token
RefreshBody(tokens) == GetS(tokens.refresh_token)

\* ------------------------------------------------------------- helpers
RETRYABLE_STATUSES == {408, 429, 500, 502, 503, 504}

FriendlyStatuses == {400, 401, 403, 404, 429, 500, 502, 503}

\* Mutation of friendlyError: no generic fallback for an unmapped status.
friendlyErrorNoFallback(status) ==
  CASE status = 400 -> "Requisicao invalida. Verifique os parametros."
    [] status = 401 -> "Token expirado ou invalido. Execute node auth.js novamente."
    [] status = 403 -> "Sem permissao. Verifique os scopes do app no Zoom Marketplace."
    [] status = 404 -> "Recurso nao encontrado no Zoom."
    [] status = 429 -> "Limite de requisicoes do Zoom atingido. Tente novamente em alguns segundos."
    [] status = 500 -> "Erro interno do servidor Zoom."
    [] status = 502 -> "Zoom temporariamente indisponivel."
    [] status = 503 -> "Zoom em manutencao."
    [] OTHER -> ""

\* friendlyError(status) with no defaultMsg: the mapped text, else the
\* generic fallback `Erro ${status} na API do Zoom.`.  "" is the empty string.
friendlyError(status) ==
  CASE status = 400 -> "Requisicao invalida. Verifique os parametros."
    [] status = 401 -> "Token expirado ou invalido. Execute node auth.js novamente."
    [] status = 403 -> "Sem permissao. Verifique os scopes do app no Zoom Marketplace."
    [] status = 404 -> "Recurso nao encontrado no Zoom."
    [] status = 429 -> "Limite de requisicoes do Zoom atingido. Tente novamente em alguns segundos."
    [] status = 500 -> "Erro interno do servidor Zoom."
    [] status = 502 -> "Zoom temporariamente indisponivel."
    [] status = 503 -> "Zoom em manutencao."
    [] OTHER -> "Erro " \o ToString(status) \o " na API do Zoom."

\* Mutation of LoopTest: one attempt too many.
LoopTestOffByOne(att, r) == att <= r + 1

\* for (let attempt = 1; attempt <= retries; attempt++): the loop test.
LoopTest(att, r) == att <= r

\* Mutation of Is401Reauth: the renewal is forced on every 401.
Is401ReauthAnyAttempt(s, att) == s = 401

\* response.status === 401 && attempt === 1
Is401Reauth(s, att) == s = 401 /\ att = 1

\* `${a} ${b}`.trim() as the sequence of its non-empty parts.
Trim(parts) == SelectSeq(parts, LAMBDA p : p # "")

\* Mutation of AttemptsRemain: the last retry is given up.
AttemptsRemainOffByOne(att, r) == att < r - 1

\* attempt < retries
AttemptsRemain(att, r) == att < r

\* Mutation of BackoffDelay: the delay is not capped.
BackoffDelayUncapped(att) == BackoffBaseMs * Pow2(att - 1)

\* Math.min(1000 * Math.pow(2, attempt - 1), 8000)
BackoffDelay(att) == Min(BackoffBaseMs * Pow2(att - 1), BackoffCapMs)

\* ------------------------------------------------------ upstream answers
\* Response bodies of the target API.  json: the body parses as JSON;
\* message / error: those fields of an error body ("" when absent);
\* keys / arrs: the array-valued keys of a listing body, in key order, and
\* the length of each array; next: next_page_token ("" when absent).
Body(json, message, error, keys, len, next) ==
  [json |-> json, message |-> message, error |-> error,
   keys |-> keys, len |-> len, next |-> next]

ErrBodies ==
  { Body(TRUE, "m", "", <<>>, 0, ""),
    Body(TRUE, "", "e", <<>>, 0, ""),
    Body(TRUE, "", "", <<>>, 0, ""),
    Body(FALSE, "", "", <<>>, 0, "") }

PageTokens == {"", "t1", "t2"}

\* A full page, a page whose first array key is page_size, a page with no array.
PageShapes ==
  { [keys |-> <<"channels">>, len |-> PageSize],
    [keys |-> <<"page_size", "members">>, len |-> 1],
    [keys |-> <<>>, len |-> 0] }

PageBodies ==
  { Body(TRUE, "", "", sh.keys, sh.len, t) : sh \in PageShapes, t \in PageTokens }

NotJson == Body(FALSE, "", "", <<>>, 0, "")

EmptyBody == Body(TRUE, "", "", <<>>, 0, "")

ApiStatuses == {200, 204, 401, 404, 418, 429, 504}

IsOk(status) == status >= 200 /\ status <= 299

\* What the target API does with one request: a network failure (status 0)
\* or a response.  A listing endpoint answers 200 with a page.
ApiOutcomes(who) ==
  { [status |-> 0, body |-> EmptyBody], [status |-> 204, body |-> EmptyBody],
    [status |-> 200, body |-> NotJson] }
    \cup { [status |-> 200, body |-> b] :
             b \in IF who = "collector" THEN PageBodies
                   ELSE {Body(TRUE, "", "", <<"channels">>, 1, "")} }
    \cup { [status |-> s, body |-> b] : s \in ApiStatuses \ {200, 204}, b \in ErrBodies }

\* errDetail of zoomRequest: message, else error, else the JSON text; when
\* the body is not JSON, response.text() is called on a body that
\* response.json() has already consumed: it rejects and "" is used.
ErrDetail(body) ==
  IF body.json
  THEN IF body.message # "" THEN body.message
       ELSE IF body.error # "" THEN body.error
       ELSE "json"
  ELSE ""

\* ------------------------------------------------------------------ state
VARIABLES
  now,           \* Date.now()
  file,          \* tokens.json: <<>> when absent, else <<record>>
  cachedTokens,  \* <<>> for null, else <<credential set>>
  pc,            \* per call: where the zoomRequest call is suspended
  attempt,       \* per call: the loop counter
  retries,       \* per call: the retries argument
  caller,        \* per call: "tool" or "collector"
  rtSent,        \* per call: refresh_token of the renewal in flight
  accessToken,   \* per call: bearer token of the last API request
  delay,         \* per call: the backoff sleep in progress
  outcome,       \* per call: "none", "result", "error", "undefined"
  result,        \* per call: the body returned
  error,         \* per call: [status, text, n] of the error raised
  log,           \* per call: what the call has done so far
  started,       \* tool calls started so far
  lastSave,      \* <<>> or <<[arg, data, t]>>: the last completed saveTokens
  checked,       \* per call: <<>> or <<[tokens, t, res, cached]>>, the
                 \* isTokenExpired(tokens) getAccessToken has just evaluated
  col,           \* the paginated collector
  faults,        \* upstream answers met so far that were not the nominal one
  reply,         \* what the zoom_status handler last returned
  clean          \* no saveTokens has failed and nothing outside the process
                 \* has touched the record

reqVars == <<pc, attempt, retries, caller, rtSent, accessToken, delay, outcome,
             result, error, log, checked>>
vars == <<now, file, cachedTokens, pc, attempt, retries, caller, rtSent,
          accessToken, delay, outcome, result, error, log, started, lastSave,
          checked, col, faults, reply, clean>>

Err(status, text, n) == [status |-> status, text |-> text, n |-> n]

NoError == Err(0, <<>>, 0)

Ev(e, at, v) == [ev |-> e, at |-> at, v |-> v]

Count(lg, e) == Cardinality({i \in 1..Len(lg) : lg[i].ev = e})


InFlight(c) == pc[c] \in {"head", "ambientFetch", "apiFetch", "forcedFetch", "sleep"}

NewCol ==
  [pc |-> "idle", maxPages |-> 0, resultKey |-> "", allItems |-> <<>>,
   pageToken |-> "", pages |-> 0, served |-> <<>>, outcome |-> "none",
   query |-> UN, sent |-> <<>>, returned |-> <<>>, error |-> NoError]

\* What tokens.json holds when the process starts: nothing, the record of a
\* recent authorization, or an older record.
StartFiles == {<<>>, <<Rec0>>, <<RecOld>>}

\* The process starts at clock t with the call slots `slots` in use and
\* one of `files` on disk.
InitFiles(slots, t, files) ==
  /\ now = t
  /\ file \in files
  /\ cachedTokens = <<>>
  /\ pc = [c \in Calls |-> IF c \in slots THEN "idle" ELSE "off"]
  /\ attempt = [c \in Calls |-> 0]
  /\ retries = [c \in Calls |-> 0]
  /\ caller = [c \in Calls |-> "tool"]
  /\ rtSent = [c \in Calls |-> U]
  /\ accessToken = [c \in Calls |-> U]
  /\ delay = [c \in Calls |-> 0]
  /\ outcome = [c \in Calls |-> "none"]
  /\ result = [c \in Calls |-> EmptyBody]
  /\ error = [c \in Calls |-> NoError]
  /\ log = [c \in Calls |-> <<>>]
  /\ started = 0
  /\ lastSave = <<>>
  /\ checked = [c \in Calls |-> <<>>]
  /\ col = NewCol
  /\ faults = 0
  /\ reply = "none"
  /\ clean = TRUE

InitAt(slots, t) == InitFiles(slots, t, StartFiles)

InitWith(slots) == InitAt(slots, Rec0.created_at + MsPerSec)

Init == InitWith({1})

\* The nominal upstream answers: a 200 with a JSON body from the API, a
\* one-hour credential from the token endpoint, a write that completes.  The
\* tool calls of a run meet at most MaxFaults other answers (a call with more
\* retries than that: as many as its retries), the page requests of a
\* collector run at most MaxPageFaults, two interleaved invocations at most
\* MaxConcFaults.
NominalApi(o) == o.status = 200 /\ o.body.json

NominalToken(o, w) == o.kind = "ok" /\ o.data.expires_in = Rec0.expires_in /\ w

FaultLimit(c) ==
  IF caller[c] = "collector" THEN MaxPageFaults
  ELSE IF \A d \in Calls : pc[d] # "off" THEN MaxConcFaults
  ELSE IF retries[c] > MaxFaults THEN retries[c]
  ELSE MaxFaults

FaultOk(c, nominal) == nominal \/ faults < FaultLimit(c)

FaultStep(c, nominal) == faults' = IF nominal THEN faults ELSE faults + 1

\* ---------------------------------------------------------- zoomRequest
\* The call ends: it returns res, returns undefined, or throws err.
Finish(c, oc, res, err) ==
  /\ pc' = [pc EXCEPT ![c] = "done"]
  /\ outcome' = [outcome EXCEPT ![c] = oc]
  /\ result' = [result EXCEPT ![c] = res]
  /\ error' = [error EXCEPT ![c] = err]

\* Mutation of CachedOrLoad: the record is read whenever it exists.
AlwaysLoad(cache, rec) == IF rec # <<>> THEN <<JSONparse(rec[1])>> ELSE cache

\* cachedTokens || loadTokens(), the record rec being present when nothing
\* is cached.
CachedOrLoad(cache, rec) == IF cache # <<>> THEN cache ELSE <<JSONparse(rec[1])>>

\* The top of the attempt loop for attempt att at clock t: the loop test,
\* then getAccessToken (load when nothing is cached, renew when expired),
\* then the API request is sent.
HeadEffect(c, att, lg, t, r) ==
  /\ attempt' = [attempt EXCEPT ![c] = att]
  /\ delay' = [delay EXCEPT ![c] = 0]
  /\ IF ~LoopTest(att, r)
     THEN /\ Finish(c, "undefined", EmptyBody, NoError)
          /\ log' = [log EXCEPT ![c] = lg]
          /\ accessToken' = [accessToken EXCEPT ![c] = U]
          /\ rtSent' = [rtSent EXCEPT ![c] = U]
          /\ checked' = [checked EXCEPT ![c] = <<>>]
          /\ UNCHANGED cachedTokens
     ELSE IF cachedTokens = <<>> /\ file = <<>>
     THEN /\ Finish(c, "error", EmptyBody, Err(0, <<"ONBOARDING_MSG">>, 0))
          /\ log' = [log EXCEPT ![c] = lg]
          /\ accessToken' = [accessToken EXCEPT ![c] = U]
          /\ rtSent' = [rtSent EXCEPT ![c] = U]
          /\ checked' = [checked EXCEPT ![c] = <<>>]
          /\ UNCHANGED cachedTokens
     ELSE LET loaded == cachedTokens = <<>>
              tokens == CachedOrLoad(cachedTokens, file)
              lg1 == IF loaded THEN Append(lg, Ev("load", att, 0)) ELSE lg
              exp == isTokenExpired(tokens, t)
          IN /\ cachedTokens' = tokens
             /\ checked' = [checked EXCEPT ![c] =
                            <<[tokens |-> tokens[1], t |-> t, res |-> exp, cached |-> ~loaded]>>]
             /\ outcome' = [outcome EXCEPT ![c] = "none"]
             /\ result' = [result EXCEPT ![c] = EmptyBody]
             /\ error' = [error EXCEPT ![c] = NoError]
             /\ IF exp
                THEN /\ pc' = [pc EXCEPT ![c] = "ambientFetch"]
                     /\ rtSent' = [rtSent EXCEPT ![c] = RefreshBody(tokens[1])]
                     /\ accessToken' = [accessToken EXCEPT ![c] = U]
                     /\ log' = [log EXCEPT ![c] = Append(lg1, Ev("tokAmbient", att, 0))]
                ELSE /\ pc' = [pc EXCEPT ![c] = "apiFetch"]
                     /\ accessToken' = [accessToken EXCEPT ![c] = GetS(tokens[1].access_token)]
                     /\ rtSent' = [rtSent EXCEPT ![c] = U]
                     /\ log' = [log EXCEPT ![c] = Append(lg1, Ev("api", att, 0))]

StartLog == <<Ev("start", 0, IF isTokenExpired(cachedTokens, now) THEN 0 ELSE 1)>>

\* A tool handler calls zoomRequest(method, path, {retries: r}).
StartTool(c, r) ==
  /\ pc[c] \in {"idle", "done"}
  /\ col.pc # "waiting"
  /\ ~(reply = "pending" /\ caller[c] = "status")
  /\ started < MaxCalls
  /\ started' = started + 1
  /\ retries' = [retries EXCEPT ![c] = r]
  /\ caller' = [caller EXCEPT ![c] = "tool"]
  /\ HeadEffect(c, 1, StartLog, now, r)
  /\ UNCHANGED <<now, file, lastSave, col, faults, reply, clean>>

\* The loop resumes after `await refreshAccessToken(tokens); continue`.
LoopHead(c) ==
  /\ pc[c] = "head"
  /\ HeadEffect(c, attempt[c], log[c], now, retries[c])
  /\ UNCHANGED <<now, file, retries, caller, started, lastSave, col, faults, reply, clean>>

\* Mutation of SaveEffect: the record is never written.
SaveEffectCacheOnly(nt, data, w) ==
  /\ cachedTokens' = <<nt>>
  /\ clean' = (clean /\ w)
  /\ UNCHANGED <<file, lastSave>>

\* saveTokens(nt): the cache is assigned, then the record is written; the
\* write either completes (w) or throws and leaves the record as it was.
SaveEffect(nt, data, w) ==
  /\ cachedTokens' = <<nt>>
  /\ clean' = (clean /\ w)
  /\ IF w
     THEN /\ file' = <<JSONstringify(nt)>>
          /\ lastSave' = <<[arg |-> nt, data |-> data, t |-> now]>>
     ELSE UNCHANGED <<file, lastSave>>

\* Mutation of RenewalFailed: the cache is dropped when a renewal fails.
RenewalFailedClearsCache ==
  /\ cachedTokens' = <<>>
  /\ UNCHANGED <<file, lastSave, clean>>

\* refreshAccessToken throws before saveTokens (the fetch rejects, or
\* !response.ok): nothing is assigned or written.
RenewalFailed == UNCHANGED <<cachedTokens, file, lastSave, clean>>

\* How a renewal ended, for the log: 0 the request failed or was rejected,
\* 3 the record could not be written, 2 the new credential set is already
\* expired as it arrives, 1 otherwise.
RespCode(o, w, nt, t) ==
  IF o.kind # "ok" THEN 0
  ELSE IF ~w THEN 3
  ELSE IF isTokenExpired(<<nt>>, t) THEN 2
  ELSE 1

\* Mutation of RenewedAccessToken: the renewed set is not assigned to tokens.
StaleAccessToken(old, nt) == GetS(old.access_token)

\* getAccessToken after the renewal: `tokens = await refreshAccessToken(tokens);
\* return tokens.access_token`.
RenewedAccessToken(old, nt) == nt.access_token

\* Mutation of AmbientFailure: the failure is swallowed and the attempt redone.
AmbientFailureRetried(c, lg, err) ==
  /\ pc' = [pc EXCEPT ![c] = "head"]
  /\ log' = [log EXCEPT ![c] = lg]
  /\ UNCHANGED <<outcome, result, error, accessToken>>

\* refreshAccessToken throws inside getAccessToken: nothing in zoomRequest
\* catches it, the call ends with that error.
AmbientFailure(c, lg, err) ==
  /\ Finish(c, "error", EmptyBody, err)
  /\ log' = [log EXCEPT ![c] = lg]
  /\ UNCHANGED accessToken

\* The token endpoint answers the renewal getAccessToken started.
AmbientResp(c) ==
  /\ pc[c] = "ambientFetch"
  /\ \E o \in TokenOutcomes, w \in BOOLEAN :
       LET nt == NewTokens(cachedTokens[1], o.data, now)
           lg == Append(log[c], Ev("tokResp", attempt[c], RespCode(o, w, nt, now)))
       IN /\ FaultOk(c, NominalToken(o, w))
          /\ FaultStep(c, NominalToken(o, w))
          /\ CASE o.kind = "net" ->
                 /\ AmbientFailure(c, lg, Err(0, <<"fetch failed">>, 0))
                 /\ RenewalFailed
            [] o.kind = "reject" ->
                 /\ AmbientFailure(c, lg, Err(0, <<"Falha ao renovar token", "errText">>, 0))
                 /\ RenewalFailed
            [] o.kind = "ok" /\ ~w ->
                 /\ SaveEffect(nt, o.data, FALSE)
                 /\ AmbientFailure(c, lg, Err(0, <<"write failed">>, 0))
            [] o.kind = "ok" /\ w ->
                 /\ SaveEffect(nt, o.data, TRUE)
                 /\ pc' = [pc EXCEPT ![c] = "apiFetch"]
                 /\ accessToken' = [accessToken EXCEPT ![c] =
                                      RenewedAccessToken(cachedTokens[1], nt)]
                 /\ log' = [log EXCEPT ![c] = Append(lg, Ev("api", attempt[c], 0))]
                 /\ UNCHANGED <<outcome, result, error>>
  /\ rtSent' = [rtSent EXCEPT ![c] = U]
  /\ checked' = [checked EXCEPT ![c] = <<>>]
  /\ UNCHANGED <<now, attempt, retries, caller, delay, started, col, reply>>

\* The backoff branch: sleep(delay) when attempts remain.
SleepEffect(c, lg) ==
  /\ pc' = [pc EXCEPT ![c] = "sleep"]
  /\ delay' = [delay EXCEPT ![c] = BackoffDelay(attempt[c])]
  /\ log' = [log EXCEPT ![c] = Append(lg, Ev("sleep", attempt[c], BackoffDelay(attempt[c])))]
  /\ UNCHANGED <<cachedTokens, rtSent, outcome, result, error>>

\* Mutation of ForcedFailure: the renewal's own error is rethrown.
ForcedFailureRethrown(c, err) == Finish(c, "error", EmptyBody, err)

\* catch { throw new Error(friendlyError(401)) }: whatever the forced renewal
\* threw (err), the call ends with the classified 401 error.
ForcedFailure(c, err) ==
  Finish(c, "error", EmptyBody, Err(401, <<friendlyError(401)>>, 0))

\* The API request of this attempt fails or is answered.
ApiResp(c) ==
  /\ pc[c] = "apiFetch"
  /\ \E o \in ApiOutcomes(caller[c]) :
       LET s == o.status
           att == attempt[c]
           lg == Append(log[c], Ev("apiResp", att, s))
       IN /\ FaultOk(c, NominalApi(o))
          /\ FaultStep(c, NominalApi(o))
          /\ CASE s = 0 /\ AttemptsRemain(att, retries[c]) -> SleepEffect(c, lg)
            [] s = 0 /\ ~AttemptsRemain(att, retries[c]) ->
                 /\ Finish(c, "error", EmptyBody,
                           Err(0, <<"Erro de conexao com Zoom apos", "cause">>, retries[c]))
                 /\ log' = [log EXCEPT ![c] = lg]
                 /\ UNCHANGED <<cachedTokens, rtSent, delay>>
            [] s # 0 /\ Is401Reauth(s, att) ->
                 IF cachedTokens = <<>> /\ file = <<>>
                 THEN /\ ForcedFailure(c, Err(0, <<"ONBOARDING_MSG">>, 0))
                      /\ log' = [log EXCEPT ![c] = lg]
                      /\ UNCHANGED <<cachedTokens, rtSent, delay>>
                 ELSE LET tokens == CachedOrLoad(cachedTokens, file)
                      IN /\ cachedTokens' = tokens
                         /\ pc' = [pc EXCEPT ![c] = "forcedFetch"]
                         /\ rtSent' = [rtSent EXCEPT ![c] = RefreshBody(tokens[1])]
                         /\ log' = [log EXCEPT ![c] = Append(lg, Ev("tokForced", att, 0))]
                         /\ UNCHANGED <<outcome, result, error, delay>>
            [] s # 0 /\ ~Is401Reauth(s, att) /\ ~IsOk(s)
                 /\ s \in RETRYABLE_STATUSES /\ AttemptsRemain(att, retries[c]) ->
                 SleepEffect(c, lg)
            [] s # 0 /\ ~Is401Reauth(s, att) /\ ~IsOk(s)
                 /\ ~(s \in RETRYABLE_STATUSES /\ AttemptsRemain(att, retries[c])) ->
                 /\ Finish(c, "error", EmptyBody,
                           Err(s, Trim(<<friendlyError(s), ErrDetail(o.body)>>), 0))
                 /\ log' = [log EXCEPT ![c] = lg]
                 /\ UNCHANGED <<cachedTokens, rtSent, delay>>
            [] s = 204 ->
                 /\ Finish(c, "result", EmptyBody, NoError)
                 /\ log' = [log EXCEPT ![c] = lg]
                 /\ UNCHANGED <<cachedTokens, rtSent, delay>>
            [] IsOk(s) /\ s # 204 ->
                 /\ IF o.body.json
                    THEN Finish(c, "result", o.body, NoError)
                    ELSE Finish(c, "error", EmptyBody, Err(0, <<"SyntaxError">>, 0))
                 /\ log' = [log EXCEPT ![c] = lg]
                 /\ UNCHANGED <<cachedTokens, rtSent, delay>>
  /\ checked' = [checked EXCEPT ![c] = <<>>]
  /\ UNCHANGED <<now, file, attempt, retries, caller, accessToken, started,
                 lastSave, col, reply, clean>>

\* The token endpoint answers the renewal forced by a 401 on attempt 1.
ForcedResp(c) ==
  /\ pc[c] = "forcedFetch"
  /\ \E o \in TokenOutcomes, w \in BOOLEAN :
       LET nt == NewTokens(cachedTokens[1], o.data, now)
           lg == Append(log[c], Ev("tokResp", attempt[c], RespCode(o, w, nt, now)))
       IN /\ log' = [log EXCEPT ![c] = lg]
          /\ FaultOk(c, NominalToken(o, w))
          /\ FaultStep(c, NominalToken(o, w))
          /\ CASE o.kind = "net" ->
                    /\ ForcedFailure(c, Err(0, <<"fetch failed">>, 0))
                    /\ RenewalFailed
                    /\ UNCHANGED attempt
               [] o.kind = "reject" ->
                    /\ ForcedFailure(c, Err(0, <<"Falha ao renovar token", "errText">>, 0))
                    /\ RenewalFailed
                    /\ UNCHANGED attempt
               [] o.kind = "ok" /\ ~w ->
                    /\ SaveEffect(nt, o.data, FALSE)
                    /\ ForcedFailure(c, Err(0, <<"write failed">>, 0))
                    /\ UNCHANGED attempt
               [] o.kind = "ok" /\ w ->
                    /\ SaveEffect(nt, o.data, TRUE)
                    /\ pc' = [pc EXCEPT ![c] = "head"]
                    /\ attempt' = [attempt EXCEPT ![c] = attempt[c] + 1]
                    /\ UNCHANGED <<outcome, result, error>>
  /\ rtSent' = [rtSent EXCEPT ![c] = U]
  /\ UNCHANGED <<now, retries, caller, accessToken, delay, started, checked, col, reply>>

\* Mutation of SleepDone: `continue` does not advance the attempt counter.
SleepDoneSameAttempt(c) ==
  /\ pc[c] = "sleep"
  /\ now' = now + delay[c]
  /\ HeadEffect(c, attempt[c], log[c], now + delay[c], retries[c])
  /\ UNCHANGED <<file, retries, caller, started, lastSave, col, faults, reply, clean>>

\* Mutation of SleepDone: sleep(delay) is not awaited, the next attempt starts at once.
SleepDoneEarly(c) ==
  /\ pc[c] = "sleep"
  /\ now' = now
  /\ HeadEffect(c, attempt[c] + 1, log[c], now, retries[c])
  /\ UNCHANGED <<file, retries, caller, started, lastSave, col, faults, reply, clean>>

\* The backoff sleep ends after delay ms; `continue` starts the next attempt.
SleepDone(c) ==
  /\ pc[c] = "sleep"
  /\ now' = now + delay[c]
  /\ HeadEffect(c, attempt[c] + 1, log[c], now + delay[c], retries[c])
  /\ UNCHANGED <<file, retries, caller, started, lastSave, col, faults, reply, clean>>

\* Time passes while no call is running: up to the instant 60 s before the
\* first record expires, and 10 s past it.
Phases == {ExpiresAt(Rec0) - MarginMs, ExpiresAt(Rec0) - MarginMs + 10 * MsPerSec}

Elapse ==
  /\ \A c \in Calls : ~InFlight(c)
  /\ reply # "pending"
  /\ col.pc # "waiting"
  /\ \E p \in Phases : p > now /\ now' = p
  /\ UNCHANGED <<file, cachedTokens, reqVars, started, lastSave, col, faults, reply, clean>>

\* ------------------------------------------------------------ zoom_status
\* Mutation of isAuthorized: the gate always passes.
isAuthorizedAlways == TRUE

\* isAuthorized(): existsSync(TOKENS_PATH).
isAuthorized == file # <<>>

\* The zoom_status handler starts: the onboarding text at once when
\* isAuthorized() is false, else zoomRequest("GET", "/users/me") with the
\* default retries.
StatusTool(c) ==
  /\ pc[c] \in {"idle", "done"}
  /\ col.pc # "waiting"
  /\ reply # "pending"
  /\ started < MaxCalls
  /\ started' = started + 1
  /\ caller' = [caller EXCEPT ![c] = "status"]
  /\ IF ~isAuthorized
     THEN /\ reply' = "ONBOARDING_MSG"
          /\ pc' = [pc EXCEPT ![c] = "done"]
          /\ log' = [log EXCEPT ![c] = StartLog]
          /\ outcome' = [outcome EXCEPT ![c] = "none"]
          /\ result' = [result EXCEPT ![c] = EmptyBody]
          /\ error' = [error EXCEPT ![c] = NoError]
          /\ UNCHANGED <<cachedTokens, attempt, retries, rtSent, accessToken,
                         delay, checked>>
     ELSE /\ reply' = "pending"
          /\ retries' = [retries EXCEPT ![c] = DefaultRetries]
          /\ HeadEffect(c, 1, StartLog, now, DefaultRetries)
  /\ UNCHANGED <<now, file, lastSave, col, faults, clean>>

\* The handler's zoomRequest has ended: the account text for a result,
\* the "connection failed" text when it threw.
StatusReply(c) ==
  /\ pc[c] = "done" /\ caller[c] = "status" /\ reply = "pending"
  /\ reply' = IF outcome[c] = "result" THEN "connected" ELSE "failed"
  /\ UNCHANGED <<now, file, cachedTokens, reqVars, started, lastSave, col,
                 faults, clean>>

\* ------------------------------------------------------- the environment
\* Something outside the process deletes tokens.json.
DeleteRecord ==
  /\ file # <<>>
  /\ file' = <<>>
  /\ lastSave' = <<>>
  /\ clean' = FALSE
  /\ UNCHANGED <<now, cachedTokens, reqVars, started, col, faults, reply>>

\* The record the authorization script writes at clock t.
RecAuth(t) ==
  [access_token |-> "a9", refresh_token |-> "r9", token_type |-> "bearer",
   expires_in |-> 3600, scope |-> "s0", created_at |-> t]

\* The user runs the authorization script again, between two tool calls: it
\* writes a fresh record, in its own process.
AuthWrite ==
  /\ \A c \in Calls : ~InFlight(c)
  /\ file # <<JSONstringify(RecAuth(now))>>
  /\ file' = <<JSONstringify(RecAuth(now))>>
  /\ lastSave' = <<>>
  /\ clean' = FALSE
  /\ UNCHANGED <<now, cachedTokens, reqVars, started, col, faults, reply>>

\* ------------------------------------------------- zoomRequestAllPages
Range(q) == {q[i] : i \in 1..Len(q)}

\* The key of the result array: resultKey, else the first key of data whose
\* value is an array and that is not "page_size" ("" when there is none).
RECURSIVE FirstArrayKey(_)
FirstArrayKey(keys) ==
  IF keys = <<>> THEN ""
  ELSE IF keys[1] # "page_size" THEN keys[1]
  ELSE FirstArrayKey(Tail(keys))

ResultKeyOf(data, resultKey) ==
  IF resultKey # "" THEN resultKey ELSE FirstArrayKey(data.keys)

\* data[key] of the p-th page served: item i of that page is <<p, i>>.
PageItems(data, resultKey, p) ==
  IF ResultKeyOf(data, resultKey) # "" /\ ResultKeyOf(data, resultKey) \in Range(data.keys)
  THEN [i \in 1..data.len |-> <<p, i>>]
  ELSE <<>>

\* Mutation of PushAll: the page replaces what was accumulated.
PushAllReplace(allItems, items) == items

\* allItems.push(...data[key])
PushAll(allItems, items) == allItems \o items

\* while (pageToken && pages < maxPages)
LoopAgain(pageToken, pages, maxPages) == pageToken # "" /\ pages < maxPages

\* Mutation of PageQuery: the caller's page_size overrides the collector's.
PageQueryCallerWins(query, pageToken) ==
  [page_size |-> IF query = UN THEN PageSize ELSE query,
   next_page_token |-> IF pageToken # "" THEN pageToken ELSE U]

\* q = { ...query, page_size: 50 }, plus next_page_token when pageToken is
\* set; query is the page_size the caller put in its query (UN: none), and
\* no caller puts a next_page_token there.
PageQuery(query, pageToken) ==
  [page_size |-> PageSize,
   next_page_token |-> IF pageToken # "" THEN pageToken ELSE U]

\* The page_size a tool handler passes in query: none, or Math.min(page_size, 50).
QueryPageSizes == {UN, 10}

\* One iteration of the do-while starts: zoomRequest("GET", path, {query: q})
\* with the default retries.
PageRequest(c) ==
  /\ retries' = [retries EXCEPT ![c] = DefaultRetries]
  /\ caller' = [caller EXCEPT ![c] = "collector"]
  /\ HeadEffect(c, 1, StartLog, now, DefaultRetries)

\* A tool handler calls
\* zoomRequestAllPages(path, {query: {page_size: ps}, resultKey: rk, maxPages: mp}).
ColStart(mp, rk, ps) ==
  /\ col.pc = "idle"
  /\ pc[1] \in {"idle", "done"}
  /\ col' = [NewCol EXCEPT !.pc = "waiting", !.maxPages = mp, !.resultKey = rk,
                           !.query = ps, !.sent = <<PageQuery(ps, "")>>]
  /\ PageRequest(1)
  /\ UNCHANGED <<now, file, started, lastSave, faults, reply, clean>>

\* Mutation of ColFailure: the error is swallowed and the items accumulated
\* so far are returned.
ColFailurePartial(err) ==
  col' = [col EXCEPT !.pc = "done", !.outcome = "result", !.returned = col.allItems]

\* `await zoomRequest(...)` throws err inside the do-while: nothing catches
\* it, zoomRequestAllPages throws it and allItems is dropped.
ColFailure(err) ==
  col' = [col EXCEPT !.pc = "done", !.outcome = "error", !.error = err]

\* The page's zoomRequest has ended: an error propagates; a result is
\* accumulated and the loop condition decides between the next page and
\* the return of allItems.
ColPage ==
  /\ col.pc = "waiting"
  /\ pc[1] = "done"
  /\ caller[1] = "collector"
  /\ IF outcome[1] # "result"
     THEN /\ ColFailure(error[1])
          /\ pc' = [pc EXCEPT ![1] = "idle"]
          /\ UNCHANGED <<cachedTokens, attempt, retries, caller, rtSent, accessToken,
                         delay, outcome, result, error, log, checked>>
     ELSE LET data == result[1]
              items == PushAll(col.allItems, PageItems(data, col.resultKey, col.pages + 1))
              again == LoopAgain(data.next, col.pages + 1, col.maxPages)
          IN /\ col' = [col EXCEPT !.allItems = items,
                                   !.pageToken = data.next,
                                   !.pages = col.pages + 1,
                                   !.served = Append(col.served, data),
                                   !.sent = IF again
                                            THEN Append(col.sent, PageQuery(col.query, data.next))
                                            ELSE col.sent,
                                   !.returned = IF again THEN <<>> ELSE items,
                                   !.pc = IF again THEN "waiting" ELSE "done",
                                   !.outcome = IF again THEN "none" ELSE "result"]
             /\ IF again
                THEN PageRequest(1)
                ELSE /\ pc' = [pc EXCEPT ![1] = "idle"]
                     /\ UNCHANGED <<cachedTokens, attempt, retries, caller, rtSent,
                                    accessToken, delay, outcome, result, error, log,
                                    checked>>
  /\ UNCHANGED <<now, file, started, lastSave, faults, reply, clean>>

Next ==
  \/ \E c \in Calls, r \in 0..MaxRetries : StartTool(c, r)
  \/ \E c \in Calls : LoopHead(c)
  \/ \E c \in Calls : AmbientResp(c)
  \/ \E c \in Calls : ApiResp(c)
  \/ \E c \in Calls : ForcedResp(c)
  \/ \E c \in Calls : SleepDone(c)
  \/ Elapse

Spec == Init /\ [][Next]_vars

\* The process with its zoom_status tool, while the record may be deleted
\* or written anew from outside.
NextExt ==
  \/ \E c \in Calls, r \in 0..MaxRetries : StartTool(c, r)
  \/ \E c \in Calls : LoopHead(c)
  \/ \E c \in Calls : AmbientResp(c)
  \/ \E c \in Calls : ApiResp(c)
  \/ \E c \in Calls : ForcedResp(c)
  \/ \E c \in Calls : SleepDone(c)
  \/ \E c \in Calls : StatusTool(c)
  \/ \E c \in Calls : StatusReply(c)
  \/ DeleteRecord
  \/ AuthWrite

\* The record may also have been edited outside the process before it starts.
InitExt == InitFiles({1}, Rec0.created_at + MsPerSec, StartFiles \cup {<<RecNoCreated>>})

SpecExt == InitExt /\ [][NextExt]_vars

\* Two tool invocations of one process whose zoomRequest calls interleave at
\* their awaits.
\* The process starts with both slots free, one second after the first
\* record has expired.
ConcStart == ExpiresAt(Rec0) + MsPerSec

InitConc == InitAt({1, 2}, ConcStart)

\* Each of the two invocations calls zoomRequest once.
StartConc(c, r) == pc[c] = "idle" /\ StartTool(c, r)

NextConc ==
  \/ \E c \in Calls, r \in 1..MaxConcRetries : StartConc(c, r)
  \/ \E c \in Calls : LoopHead(c)
  \/ \E c \in Calls : AmbientResp(c)
  \/ \E c \in Calls : ApiResp(c)
  \/ \E c \in Calls : ForcedResp(c)
  \/ \E c \in Calls : SleepDone(c)

SpecConc == InitConc /\ [][NextConc]_vars

\* One call with a long retry budget against an upstream that keeps failing.
StartLong(r) == pc[1] = "idle" /\ StartTool(1, r)

NextRetry ==
  \/ \E r \in 0..MaxLongRetries : StartLong(r)
  \/ \E c \in Calls : LoopHead(c)
  \/ \E c \in Calls : AmbientResp(c)
  \/ \E c \in Calls : ApiResp(c)
  \/ \E c \in Calls : ForcedResp(c)
  \/ \E c \in Calls : SleepDone(c)

SpecRetry == Init /\ [][NextRetry]_vars

\* The continuation of call c after one of its awaits completes.
CallStep(c) ==
  LoopHead(c) \/ AmbientResp(c) \/ ApiResp(c) \/ ForcedResp(c) \/ SleepDone(c)

\* The same call when every fetch, write and sleep it awaits completes.
SpecLive == Init /\ [][NextRetry]_vars /\ \A c \in Calls : WF_vars(CallStep(c))

\* One run of the collector from a fresh process.
NextPages ==
  \/ \E mp \in 0..MaxPagesBound, rk \in {"", "channels"}, ps \in QueryPageSizes :
       ColStart(mp, rk, ps)
  \/ ColPage
  \/ \E c \in Calls : LoopHead(c)
  \/ \E c \in Calls : AmbientResp(c)
  \/ \E c \in Calls : ApiResp(c)
  \/ \E c \in Calls : ForcedResp(c)
  \/ \E c \in Calls : SleepDone(c)

SpecPages == Init /\ [][NextPages]_vars


\* ------------------------------------------------------------ properties
Last(q) == q[Len(q)]

HasEv(lg, e, at, v) == \E i \in 1..Len(lg) : lg[i] = Ev(e, at, v)

CountAt(lg, e, at) == Cardinality({i \in 1..Len(lg) : lg[i].ev = e /\ lg[i].at = at})

ApiRequests(c) == Count(log[c], "api")

TokenRequests(c) == Count(log[c], "tokAmbient") + Count(log[c], "tokForced")

\* C1: a zoomRequest call sends at most `retries` requests to the target API,
\* whatever the outcomes of its attempts; the attempt whose 401 forces the
\* renewal is one of them.
Thm_C1 == \A c \in Calls : ApiRequests(c) <= retries[c]

Wit_C1 ==
  \E c \in Calls :
    /\ pc[c] = "done" /\ retries[c] = 3 /\ ApiRequests(c) = 3
    /\ HasEv(log[c], "apiResp", 1, 401) /\ Count(log[c], "tokForced") = 1
    /\ HasEv(log[c], "apiResp", 2, 0)
    /\ HasEv(log[c], "apiResp", 3, 429)

\* The call started with an unexpired credential in the cache, got 401 on
\* attempt 1 and 200 on attempt 2, and returned that body.
Scenario401(c) ==
  /\ pc[c] = "done" /\ outcome[c] = "result" /\ result[c] # EmptyBody
  /\ log[c][1] = Ev("start", 0, 1)
  /\ HasEv(log[c], "apiResp", 1, 401)
  /\ HasEv(log[c], "apiResp", 2, 200)

\* What holds of every 401 of a call: on attempt 1 the renewal request is
\* sent at once, whatever isTokenExpired says of the cached credential; a
\* successful renewal is followed by attempt 2 with no sleep before it (when
\* retries allows an attempt 2); a 401 on a later attempt ends the call
\* with the error of the generic non-success path.
ReauthOnce(c) ==
  LET lg == log[c] IN
  /\ Count(lg, "tokForced") <= 1
  /\ \A i \in 1..Len(lg) :
       /\ lg[i].ev = "tokForced" => i > 1 /\ lg[i - 1] = Ev("apiResp", 1, 401)
       /\ lg[i] = Ev("apiResp", 1, 401) => i < Len(lg) /\ lg[i + 1] = Ev("tokForced", 1, 0)
       /\ (lg[i].ev = "tokResp" /\ lg[i].v \in {1, 2} /\ lg[i - 1].ev = "tokForced") =>
            IF i < Len(lg)
            THEN lg[i + 1].at = 2 /\ lg[i + 1].ev \in {"api", "tokAmbient"}
            ELSE \/ pc[c] = "head" /\ attempt[c] = 2
                 \/ pc[c] = "done" /\ retries[c] < 2
       /\ (lg[i].ev = "apiResp" /\ lg[i].v = 401 /\ lg[i].at >= 2) =>
            /\ i = Len(lg) /\ pc[c] = "done" /\ outcome[c] = "error"
            /\ error[c].status = 401 /\ error[c].text[1] = friendlyError(401)

Orig_C3 ==
  \A c \in Calls :
    (pc[c] = "done" /\ retries[c] >= 1) =>
      \/ outcome[c] = "result"
      \/ outcome[c] = "error" /\ error[c].text # <<>>

\* C4 (as stated): for a credential set that has created_at and expires_in,
\* isTokenExpired is true iff now >= created_at + expires_in*1000 - 60000.
Orig_C4 ==
  \A c \in Calls :
    (/\ checked[c] # <<>>
     /\ GetN(checked[c][1].tokens.created_at) # UN
     /\ GetN(checked[c][1].tokens.expires_in) # UN) =>
      (checked[c][1].res <=>
         checked[c][1].t >= checked[c][1].tokens.created_at
                              + checked[c][1].tokens.expires_in * 1000 - 60000)


\* C5: getAccessToken returns the cached credential's access_token with no
\* storage read and no token-endpoint request when the cache holds an
\* unexpired credential; loads the durable record first when the cache is
\* empty; and when the credential it then holds is expired performs exactly
\* one renewal and returns the renewed access_token.
Thm_C5 ==
  \A c \in Calls :
    LET lg == log[c]
        n == Len(lg)
        att == attempt[c]
    IN /\ (pc[c] = "apiFetch" /\ checked[c] # <<>>) =>
            LET k == checked[c][1] IN
            /\ ~isTokenExpired(<<k.tokens>>, k.t)
            /\ accessToken[c] = GetS(k.tokens.access_token)
            /\ lg[n] = Ev("api", att, 0)
            /\ CountAt(lg, "tokAmbient", att) = 0
            /\ IF k.cached
               THEN lg[n - 1].ev # "load" /\ CountAt(lg, "load", att) = 0
               ELSE lg[n - 1] = Ev("load", att, 0) /\ k.tokens = JSONparse(file[1])
       /\ pc[c] = "ambientFetch" =>
            /\ checked[c] # <<>>
            /\ isTokenExpired(<<checked[c][1].tokens>>, checked[c][1].t)
            /\ lg[n] = Ev("tokAmbient", att, 0)
            /\ CountAt(lg, "tokAmbient", att) = 1 /\ CountAt(lg, "api", att) = 0
            /\ ~checked[c][1].cached => lg[n - 1] = Ev("load", att, 0)
       /\ (pc[c] = "apiFetch" /\ checked[c] = <<>>) =>
            /\ lg[n] = Ev("api", att, 0)
            /\ lg[n - 1].ev = "tokResp" /\ lg[n - 1].v \in {1, 2}
            /\ lg[n - 2] = Ev("tokAmbient", att, 0)
            /\ CountAt(lg, "tokAmbient", att) = 1
            /\ lastSave # <<>>
            /\ accessToken[c] = GetS(lastSave[1].data.access_token)
            /\ accessToken[c] = cachedTokens[1].access_token

\* The scenario: expires_in = 3600 and created_at = now - 3550000 ms; the
\* renewal has been made and the renewed access_token is in use.
Wit_C5 ==
  \E c \in Calls :
    /\ pc[c] = "apiFetch" /\ checked[c] = <<>>
    /\ now = Rec0.created_at + 3550000
    /\ HasEv(log[c], "load", 1, 0)
    /\ accessToken[c] = "a1" /\ cachedTokens[1].created_at = now

\* A renewal of call c has just completed: the token endpoint answered with a
\* credential set and the record was written.
JustRenewed(c) ==
  LET lg == log[c]
      n == Len(lg)
  IN \/ pc[c] = "head" /\ n > 0 /\ lg[n].ev = "tokResp" /\ lg[n].v \in {1, 2}
     \/ pc[c] = "apiFetch" /\ checked[c] = <<>>

\* C6: after a successful refreshAccessToken every field of the cache and of
\* the durable record comes from the token endpoint's response or from the
\* clock, nothing of the prior credential set is kept, and the record is
\* written before refreshAccessToken returns.
Thm_C6 ==
  \A c \in Calls :
    JustRenewed(c) =>
      /\ lastSave # <<>> /\ cachedTokens # <<>> /\ file # <<>>
      /\ LET d == lastSave[1].data
             k == cachedTokens[1]
         IN /\ k.access_token = GetS(d.access_token)
            /\ k.refresh_token = GetS(d.refresh_token)
            /\ k.token_type = GetS(d.token_type)
            /\ k.expires_in = GetN(d.expires_in)
            /\ k.scope = GetS(d.scope)
            /\ k.created_at = now
            /\ file[1] = [access_token |-> d.access_token,
                          refresh_token |-> d.refresh_token,
                          token_type |-> d.token_type,
                          expires_in |-> d.expires_in,
                          scope |-> d.scope,
                          created_at |-> now]

\* The prior set had refresh_token r0 and scope s0; the response carried no
\* refresh_token and no scope.
Wit_C6 ==
  \E c \in Calls :
    /\ JustRenewed(c)
    /\ HasEv(log[c], "load", 1, 0) /\ TokenRequests(c) = 1
    /\ cachedTokens[1].refresh_token = U /\ cachedTokens[1].scope = U
    /\ file[1].refresh_token = M

\* C7: a failed renewal is not retried: every refreshAccessToken sends one
\* token-endpoint request, and when the renewal inside getAccessToken fails
\* zoomRequest ends at once with that renewal's error, with no API request
\* on that attempt and no further attempt.
Thm_C7 ==
  \A c \in Calls :
    LET lg == log[c] IN
    \A i \in 1..Len(lg) :
      /\ lg[i].ev \in {"tokAmbient", "tokForced"} =>
           \/ i = Len(lg) /\ pc[c] \in {"ambientFetch", "forcedFetch"}
           \/ i < Len(lg) /\ lg[i + 1].ev = "tokResp" /\ lg[i + 1].at = lg[i].at
      /\ lg[i].ev = "tokResp" => i > 1 /\ lg[i - 1].ev \in {"tokAmbient", "tokForced"}
      /\ (lg[i].ev = "tokResp" /\ lg[i].v \in {0, 3} /\ lg[i - 1].ev = "tokAmbient") =>
           /\ i = Len(lg)
           /\ pc[c] = "done" /\ outcome[c] = "error"
           /\ error[c].text[1] \in {"Falha ao renovar token", "fetch failed", "write failed"}
           /\ CountAt(lg, "api", lg[i].at) = 0

\* The renewal of attempt 2 is rejected after attempt 1 was made.
Wit_C7 ==
  \E c \in Calls :
    /\ pc[c] = "done" /\ retries[c] = 3 /\ attempt[c] = 2
    /\ Last(log[c]) = Ev("tokResp", 2, 0)
    /\ error[c].text[1] = "Falha ao renovar token"
    /\ ApiRequests(c) = 1

PageRequests == col.pages + (IF col.pc = "waiting" THEN 1 ELSE 0)

\* C8 (as stated): for every maxPages, zoomRequestAllPages makes at most
\* maxPages page requests, even when every response carries a
\* next_page_token.
Orig_C8 == col.pc # "idle" => PageRequests <= col.maxPages

RECURSIVE ConcatPages(_, _, _)
ConcatPages(served, rk, p) ==
  IF p = 0 THEN <<>>
  ELSE ConcatPages(served, rk, p - 1) \o PageItems(served[p], rk, p)

\* C9: when every page request succeeds and page n <= maxPages carries no
\* next_page_token, zoomRequestAllPages returns the result arrays of pages
\* 1..n concatenated in page order and item order.
Thm_C9 ==
  (/\ col.pc = "done" /\ col.outcome = "result"
   /\ Len(col.served) <= col.maxPages
   /\ Last(col.served).next = "") =>
     /\ col.pages = Len(col.served)
     /\ col.allItems = ConcatPages(col.served, col.resultKey, Len(col.served))

\* Three pages of 50 items, then no token.
Wit_C9 ==
  /\ col.pc = "done" /\ col.outcome = "result" /\ col.pages = 3
  /\ \A p \in 1..3 : col.served[p].len = PageSize /\ col.served[p].keys = <<"channels">>
  /\ col.served[3].next = ""
  /\ Len(col.allItems) = 150
  /\ col.allItems[1] = <<1, 1>> /\ col.allItems[51] = <<2, 1>> /\ col.allItems[150] = <<3, 50>>

\* ---------------------------------------------------------------- C11..C20
\* Nothing is stored and nothing is cached.
NoCredential == file = <<>> /\ cachedTokens = <<>>

\* This step starts a tool invocation in slot c (one slot runs at a time).
Invoked(c) == pc[c] \in {"idle", "done"} /\ started' = started + 1

\* The invocation started by this step has ended within the step and has
\* sent nothing to the API or to the token endpoint.
EndedSilently(c) ==
  /\ pc'[c] = "done"
  /\ Count(log'[c], "api") = 0
  /\ Count(log'[c], "tokAmbient") = 0 /\ Count(log'[c], "tokForced") = 0

RuleDelay(n) == IF n >= 4 THEN 8000 ELSE 1000 * 2^(n - 1)

\* Event i of the log is followed by the backoff sleep of its attempt, and
\* after the sleep by the start of the next attempt.
SleepsThenRetries(c, i) ==
  LET lg == log[c]
      n == lg[i].at
  IN /\ i < Len(lg)
     /\ lg[i + 1] = Ev("sleep", n, RuleDelay(n))
     /\ IF i + 1 = Len(lg)
        THEN pc[c] = "sleep" /\ delay[c] = RuleDelay(n) /\ attempt[c] = n
        ELSE lg[i + 2].at = n + 1 /\ lg[i + 2].ev \in {"api", "tokAmbient"}

\* The call has ended on a 2xx answer: its body is the result ({} for 204),
\* unless the body of a 200 does not parse.
SuccessReturned(c) ==
  (pc[c] = "done" /\ log[c] # <<>> /\ Last(log[c]).ev = "apiResp" /\ IsOk(Last(log[c]).v)) =>
     \/ outcome[c] = "result" /\ (Last(log[c]).v = 204 => result[c] = EmptyBody)
     \/ outcome[c] = "error" /\ error[c].text = <<"SyntaxError">> /\ Last(log[c]).v # 204

\* C12: a retryable status on attempt n < retries is followed by a sleep of
\* exactly min(1000 * 2^(n-1), 8000) ms and then by attempt n+1; a later
\* success is the call's result; 429 then 200 gives the 200 body after
\* exactly one sleep, of 1000 ms.
Thm_C12 ==
  /\ [](\A c \in Calls :
         /\ \A i \in 1..Len(log[c]) :
              (/\ log[c][i].ev = "apiResp"
               /\ log[c][i].v \in {408, 429, 500, 502, 503, 504}
               /\ log[c][i].at < retries[c]) => SleepsThenRetries(c, i)
         /\ SuccessReturned(c)
         /\ (/\ pc[c] = "done" /\ outcome[c] = "result" /\ Len(log[c]) > 1
             /\ HasEv(log[c], "apiResp", 1, 429)
             /\ Last(log[c]) = Ev("apiResp", 2, 200)) =>
               /\ result[c] # EmptyBody
               /\ Count(log[c], "sleep") = 1
               /\ HasEv(log[c], "sleep", 1, 1000))
  /\ [][\A c \in Calls :
         (pc[c] = "sleep" /\ pc'[c] # "sleep") => now' = now + RuleDelay(attempt[c])]_vars

\* Five retryable answers, sleeps of 1, 2, 4, 8 and 8 seconds, then the 200.
Wit_C12 ==
  /\ pc[1] = "done" /\ retries[1] = 6 /\ outcome[1] = "result" /\ result[1] # EmptyBody
  /\ \A n \in 1..5 : HasEv(log[1], "apiResp", n, 429) \/ HasEv(log[1], "apiResp", n, 504)
  /\ HasEv(log[1], "sleep", 3, 4000) /\ HasEv(log[1], "sleep", 4, 8000)
  /\ HasEv(log[1], "sleep", 5, 8000)
  /\ Count(log[1], "sleep") = 5
  /\ Last(log[1]) = Ev("apiResp", 6, 200)

\* The call has ended and every answer to its API requests was a network
\* failure.
AllNetworkFailures(c) ==
  /\ pc[c] = "done" /\ ApiRequests(c) >= 1
  /\ \A i \in 1..Len(log[c]) : log[c][i].ev = "apiResp" => log[c][i].v = 0

\* No renewal of the call has failed.
NoRenewalFailed(c) ==
  \A i \in 1..Len(log[c]) : log[c][i].ev = "tokResp" => log[c][i].v \in {1, 2}

\* retries attempts, a sleep after each but the last, then the NetworkError
\* with the cause and the attempt count.
ExhaustsRetries(c) ==
  /\ ApiRequests(c) = retries[c]
  /\ Count(log[c], "sleep") = retries[c] - 1
  /\ \A n \in 1..(retries[c] - 1) : HasEv(log[c], "sleep", n, RuleDelay(n))
  /\ Last(log[c]) = Ev("apiResp", retries[c], 0)
  /\ outcome[c] = "error"
  /\ error[c] = Err(0, <<"Erro de conexao com Zoom apos", "cause">>, retries[c])

GenericText(st) == "Erro " \o ToString(st) \o " na API do Zoom."

\* C14: a non-success status outside the retryable set (other than 401 on
\* attempt 1), or a retryable status on the last attempt, ends the call on
\* that attempt with an ApiError and no further request or sleep; the
\* message is keyed by the status, generic for an unmapped status, never
\* empty.
Thm_C14 ==
  \A c \in Calls :
    \A i \in 1..Len(log[c]) :
      LET e == log[c][i] IN
      (/\ e.ev = "apiResp" /\ e.v # 0 /\ ~(e.v >= 200 /\ e.v <= 299)
       /\ ~(e.v = 401 /\ e.at = 1)
       /\ (e.v \notin {408, 429, 500, 502, 503, 504} \/ e.at = retries[c])) =>
         /\ i = Len(log[c])
         /\ pc[c] = "done" /\ outcome[c] = "error"
         /\ error[c].status = e.v
         /\ error[c].text # <<>> /\ error[c].text[1] # ""
         /\ IF e.v \in {400, 401, 403, 404, 429, 500, 502, 503}
            THEN \A st \in ApiStatuses : error[c].text[1] # GenericText(st)
            ELSE error[c].text[1] = GenericText(e.v)
         /\ e.v = 404 => error[c].text[1] = "Recurso nao encontrado no Zoom."

\* 504 on the last of three attempts with a body that carries no detail.
Wit_C14 ==
  /\ pc[1] = "done" /\ retries[1] = 3
  /\ Last(log[1]) = Ev("apiResp", 3, 504)
  /\ error[1].text = <<"Erro 504 na API do Zoom.">>
  /\ Count(log[1], "sleep") = 2

\* C15: when the renewal forced by a 401 on attempt 1 fails (rejected,
\* network failure, record missing, record not writable) the call ends at
\* once with the classified 401 error, with no further API request, no
\* sleep and no retry.
Thm_C15 ==
  \A c \in Calls :
    LET lg == log[c]
        ended == /\ pc[c] = "done" /\ outcome[c] = "error"
                 /\ error[c] = Err(401, <<"Token expirado ou invalido. Execute node auth.js novamente.">>, 0)
                 /\ ApiRequests(c) = 1 /\ Count(lg, "sleep") = 0
                 /\ attempt[c] = 1
    IN /\ \A i \in 2..Len(lg) :
            (lg[i].ev = "tokResp" /\ lg[i].v \in {0, 3} /\ lg[i - 1].ev = "tokForced") =>
               i = Len(lg) /\ Count(lg, "tokForced") = 1 /\ ended
       /\ (pc[c] = "done" /\ lg # <<>> /\ Last(lg) = Ev("apiResp", 1, 401)) => ended

\* The forced renewal of a call with three attempts is rejected.
Wit_C15 ==
  /\ pc[1] = "done" /\ retries[1] = 3
  /\ HasEv(log[1], "apiResp", 1, 401) /\ Count(log[1], "tokForced") = 1
  /\ Last(log[1]) = Ev("tokResp", 1, 0)
  /\ error[1].status = 401 /\ ApiRequests(1) = 1

\* Renewal responses of call c in lg that ended as v says.
Saves(lg, vs) == Cardinality({i \in 1..Len(lg) : lg[i].ev = "tokResp" /\ lg[i].v \in vs})

\* C16 (as stated): a saveTokens whose write fails leaves both the record
\* and the cache holding the prior credential set; one that succeeds leaves
\* both holding the new set.
Orig_C16 ==
  [][\A c \in Calls :
       /\ Saves(log'[c], {3}) > Saves(log[c], {3}) =>
            cachedTokens' = cachedTokens /\ file' = file
       /\ Saves(log'[c], {1, 2}) > Saves(log[c], {1, 2}) =>
            /\ cachedTokens' # <<>> /\ file' # <<>>
            /\ FieldEq(JSONparse(file'[1]), cachedTokens'[1])]_vars

\* C17 (as stated): one call contacts the token endpoint at most twice, at
\* most once for an ambient renewal and at most once for a forced one.
Orig_C17 ==
  \A c \in Calls :
    /\ Count(log[c], "tokAmbient") <= 1
    /\ Count(log[c], "tokForced") <= 1
    /\ TokenRequests(c) <= 2

\* C18 (as stated): the credential set whose access token an API request
\* carries is not expired under isTokenExpired when the request is started.
Orig_C18 ==
  [][\A c \in Calls :
       (pc'[c] = "apiFetch" /\ (pc[c] # "apiFetch" \/ log'[c] # log[c])) =>
          /\ cachedTokens' # <<>>
          /\ accessToken'[c] = GetS(cachedTokens'[1].access_token)
          /\ ~isTokenExpired(cachedTokens', now')]_vars

\* C19 (as stated): while the record is absent every zoomRequest call
\* (here: with retries >= 1) fails with the onboarding error and sends no
\* request, whether or not the cache is populated.
Orig_C19 ==
  [][\A c \in Calls :
       (~isAuthorized /\ Invoked(c) /\ caller'[c] = "tool" /\ retries'[c] >= 1) =>
          /\ EndedSilently(c)
          /\ outcome'[c] = "error" /\ error'[c].text = <<"ONBOARDING_MSG">>]_vars

\* k is one complete credential set: a record as stored, or the six fields
\* NewTokens builds from one token-endpoint response.
CompleteSet(k) ==
  \/ FieldEq(k, Rec0)
  \/ FieldEq(k, RecOld)
  \/ \E d \in TokenDatas :
       /\ GetS(k.access_token) = GetS(d.access_token)
       /\ GetS(k.refresh_token) = GetS(d.refresh_token)
       /\ GetS(k.token_type) = GetS(d.token_type)
       /\ GetN(k.expires_in) = GetN(d.expires_in)
       /\ GetS(k.scope) = GetS(d.scope)
       /\ GetN(k.created_at) >= Rec0.created_at

\* C20: under any interleaving of concurrent zoomRequest calls the cache is
\* empty or equal to one complete credential set from a single load or a
\* single renewal response, and while no save has failed and nothing
\* outside the process has written the record the cache, if populated,
\* equals the record field for field.
Thm_C20 ==
  /\ cachedTokens = <<>> \/ CompleteSet(cachedTokens[1])
  /\ (clean /\ cachedTokens # <<>>) =>
       file # <<>> /\ FieldEq(JSONparse(file[1]), cachedTokens[1])

\* Both calls found the stored set expired and renewed it while the other's
\* renewal was in flight; the cache holds the set of the later response.
Wit_C20 ==
  /\ pc[1] = "apiFetch" /\ pc[2] = "apiFetch"
  /\ Count(log[1], "tokAmbient") = 1 /\ Count(log[2], "tokAmbient") = 1
  /\ accessToken[1] = "a1" /\ accessToken[2] = "a2"
  /\ clean /\ cachedTokens[1].access_token = "a2" /\ cachedTokens[1].scope = "s0"
  /\ file[1].refresh_token = "r2"

\* ---------------------------------------------------------------- C21..C30
\* The credential set k is expired at clock t by the rule of the store:
\* created_at or expires_in unknown, or t within 60 s of the expiry instant.
RuleExpired(k, t) ==
  \/ GetN(k.created_at) \in {UN, 0}
  \/ GetN(k.expires_in) \in {UN, 0}
  \/ t > k.created_at + k.expires_in * 1000 - 60000

\* C21: nothing serialises renewals: when a call starts while another call's
\* renewal is in flight and the cached credential is expired, it sends its
\* own renewal with the refresh_token of that same cached credential, so two
\* renewals for one refresh_token are in flight.
Thm_C21 ==
  [][\A c, d \in Calls :
       (/\ c # d /\ pc[d] = "ambientFetch" /\ pc[c] = "idle" /\ pc'[c] # "idle"
        /\ cachedTokens # <<>> /\ RuleExpired(cachedTokens[1], now)) =>
          /\ pc'[c] = "ambientFetch" /\ pc'[d] = "ambientFetch"
          /\ rtSent'[c] = GetS(cachedTokens[1].refresh_token)
          /\ rtSent'[c] = rtSent'[d]]_vars

\* Both calls have a renewal in flight for refresh_token r0.
Wit_C21 ==
  /\ pc[1] = "ambientFetch" /\ pc[2] = "ambientFetch"
  /\ rtSent[1] = "r0" /\ rtSent[2] = "r0"
  /\ cachedTokens = <<Rec0>>

IsRequest(e) == e.ev \in {"api", "tokAmbient", "tokForced"}

IsResponse(e) == e.ev \in {"apiResp", "tokResp"}

\* Requests of the log still waiting for their response.
Outstanding(lg) ==
  Cardinality({i \in 1..Len(lg) : IsRequest(lg[i])})
    - Cardinality({i \in 1..Len(lg) : IsResponse(lg[i])})

Fetching(c) == pc[c] \in {"ambientFetch", "apiFetch", "forcedFetch"}

\* The log of one call is sequential: every request is followed at once by
\* its response and every response answers the request just before it (so
\* at most one request waits at any point), attempt numbers never go back, attempt 1 begins
\* right after the call starts, and attempt n+1 right after the backoff sleep
\* of attempt n or after the successful forced renewal of attempt 1.
Sequential(lg) ==
  /\ \A i \in 1..Len(lg) :
       /\ IsRequest(lg[i]) => (i = Len(lg) \/ IsResponse(lg[i+1]))
       /\ IsResponse(lg[i]) => (i > 1 /\ IsRequest(lg[i-1]))
  /\ \A i \in 2..Len(lg) :
       \/ lg[i].at = lg[i-1].at
       \/ /\ lg[i].at = lg[i-1].at + 1
          /\ \/ lg[i-1].ev = "start"
             \/ lg[i-1].ev = "sleep"
             \/ lg[i-1].ev = "tokResp" /\ lg[i-1].v \in {1, 2} /\ lg[i-1].at = 1

\* C22: within one zoomRequest call at most one HTTP request (API or token
\* endpoint) is in flight at any time, and attempt n+1 starts only after the
\* response or failure of attempt n was handled and the backoff sleep, if
\* any, has run for its whole delay.
Thm_C22 ==
  [][\A c \in Calls :
       /\ Sequential(log'[c])
       /\ (Outstanding(log'[c]) = 1) <=> Fetching(c)'
       /\ (pc[c] = "sleep" /\ log'[c] # log[c]) =>
            /\ delay[c] = RuleDelay(attempt[c])
            /\ now' = now + delay[c]
            /\ attempt'[c] = attempt[c] + 1
       /\ (pc[c] = "sleep" /\ log'[c] = log[c]) => pc'[c] = "sleep"]_vars

Wit_C22 ==
  /\ pc[1] = "apiFetch" /\ attempt[1] = 3
  /\ Count(log[1], "sleep") = 1 /\ Count(log[1], "tokForced") = 1
  /\ Outstanding(log[1]) = 1
  /\ now = Rec0.created_at + MsPerSec + RuleDelay(2)

NonEmpty(x) == x \notin {U, M, ""}

\* C23 (as stated): once a renewal has stored a credential set, the cache and
\* the record both hold a non-empty access_token and a non-empty
\* refresh_token, whatever the success response carried.
Orig_C23 ==
  (lastSave # <<>> /\ file # <<>> /\ cachedTokens # <<>>) =>
    /\ NonEmpty(cachedTokens[1].access_token)
    /\ NonEmpty(cachedTokens[1].refresh_token)
    /\ NonEmpty(file[1].access_token)
    /\ NonEmpty(file[1].refresh_token)

\* Position of a running call in the attempt loop: the attempt number, then
\* how far the attempt has come.
Rank(c) ==
  4 * attempt[c] + CASE pc[c] = "head" -> 0
                     [] pc[c] = "ambientFetch" -> 1
                     [] pc[c] = "apiFetch" -> 2
                     [] pc[c] \in {"forcedFetch", "sleep"} -> 3
                     [] OTHER -> 0

\* C24: when every fetch, write and sleep completes, every zoomRequest call
\* ends (with a result or an error) for every retries value: a running call
\* never has more than retries + 1 as attempt number, each of its steps ends
\* it or moves it further along the attempt loop, and it does end.
Thm_C24 ==
  /\ \A c \in Calls : InFlight(c) ~> (pc[c] = "done" /\ outcome[c] # "none")
  /\ [][\A c \in Calls :
         (InFlight(c) /\ <<pc[c], attempt[c], log[c]>>' # <<pc[c], attempt[c], log[c]>>) =>
           /\ attempt[c] <= retries[c] + 1
           /\ pc'[c] = "done" \/ (InFlight(c)' /\ Rank(c)' > Rank(c))]_vars

Wit_C24 ==
  /\ pc[1] = "done" /\ retries[1] = MaxLongRetries
  /\ attempt[1] = MaxLongRetries /\ outcome[1] = "error"
  /\ Count(log[1], "sleep") = MaxLongRetries - 1

RawText == "raw"

\* The detail the response body supplies: the JSON message or error field,
\* the raw text when the body is not JSON.
BodyDetail(body) == IF body.json THEN ErrDetail(body) ELSE RawText

\* C26 (as stated): a call that ends on a non-success response throws the
\* message of the status followed by the detail of the body that response
\* had: the JSON message / error field, or the raw text of a non-JSON body.
Orig_C26 ==
  [][\A c \in Calls :
       (pc[c] = "apiFetch" /\ pc'[c] = "done" /\ outcome'[c] = "error"
        /\ error'[c].status # 0) =>
         \E b \in ErrBodies :
           error'[c].text = Trim(<<friendlyError(error'[c].status), BodyDetail(b)>>)]_vars

\* C27: isTokenExpired is true for a null credential and for every set
\* without created_at or without expires_in, and for expires_in = 0: each
\* time getAccessToken evaluates such a set, cached or just loaded, it
\* starts a renewal.
Thm_C27 ==
  /\ isTokenExpired(<<>>, now)
  /\ \A c \in Calls :
       checked[c] # <<>> =>
         LET k == checked[c][1]
         IN (\/ GetN(k.tokens.created_at) = UN
             \/ GetN(k.tokens.expires_in) \in {UN, 0}) =>
              /\ k.res
              /\ pc[c] = "ambientFetch"
              /\ Last(log[c]).ev = "tokAmbient"

\* The second call of the process meets the cached set with expires_in = 0
\* and renews again.
Wit_C27 ==
  \E c \in Calls :
    /\ started = 2 /\ checked[c] # <<>> /\ checked[c][1].cached
    /\ checked[c][1].tokens.expires_in = 0
    /\ pc[c] = "ambientFetch"

\* C28: when a renewal fails because the token endpoint refuses it or cannot
\* be reached, the cache and the record hold after the failure the
\* credential set they held before it.
Thm_C28 ==
  [][\A c \in Calls :
       (/\ pc[c] \in {"ambientFetch", "forcedFetch"}
        /\ Len(log'[c]) = Len(log[c]) + 1
        /\ Last(log'[c]) = Ev("tokResp", attempt[c], 0)) =>
         /\ pc'[c] = "done" /\ outcome'[c] = "error"
         /\ cachedTokens # <<>>
         /\ cachedTokens' = cachedTokens
         /\ file' = file]_vars

Wit_C28 ==
  /\ pc[1] = "done" /\ outcome[1] = "error"
  /\ Last(log[1]) = Ev("tokResp", 1, 0)
  /\ Count(log[1], "tokAmbient") = 1
  /\ cachedTokens = <<Rec0>> /\ file = <<Rec0>>

\* The events the step adds to the log of call c (the whole log when the
\* step starts a new call).
Added(c) ==
  IF Len(log'[c]) >= Len(log[c]) /\ SubSeq(log'[c], 1, Len(log[c])) = log[c]
  THEN SubSeq(log'[c], Len(log[c]) + 1, Len(log'[c]))
  ELSE log'[c]

\* C29: once the cache is populated it is never empty again and the record
\* is never read again: every later renewal sends the cached refresh_token
\* and every later API request the cached access_token, also when the
\* authorization script has meanwhile written a fresh record.
Thm_C29 ==
  [][cachedTokens # <<>> =>
       /\ cachedTokens' # <<>>
       /\ \A c \in Calls :
            /\ \A i \in 1..Len(Added(c)) : Added(c)[i].ev # "load"
            /\ (pc[c] \notin {"ambientFetch", "forcedFetch"}
                /\ pc'[c] \in {"ambientFetch", "forcedFetch"}) =>
                 rtSent'[c] = GetS(cachedTokens[1].refresh_token)
            /\ (pc[c] \notin {"ambientFetch", "apiFetch"} /\ pc'[c] = "apiFetch") =>
                 accessToken'[c] = GetS(cachedTokens[1].access_token)]_vars

\* After a renewal of the edited record failed and the authorization script
\* wrote a fresh one, the next call renews with the cached refresh_token.
Wit_C29 ==
  /\ started = 2 /\ pc[1] = "ambientFetch"
  /\ checked[1] # <<>> /\ checked[1][1].cached
  /\ cachedTokens = <<RecNoCreated>> /\ rtSent[1] = "r0"
  /\ file # <<>> /\ file[1].refresh_token = "r9"

Thm_C31 ==
  [][(col.pc = "waiting" /\ pc[1] = "done" /\ outcome[1] = "error" /\ col' # col) =>
       /\ col'.pc = "done" /\ col'.outcome = "error"
       /\ col'.error = error[1] /\ col'.error # NoError
       /\ col'.returned = <<>>
       /\ col'.sent = col.sent /\ col'.pages = col.pages
       /\ ~InFlight(1)']_vars

\* The third page fails after two pages of items were accumulated.
Wit_C31 ==
  /\ col.pc = "done" /\ col.outcome = "error"
  /\ Len(col.served) = 2 /\ Len(col.sent) = 3
  /\ Len(col.allItems) = 2 * PageSize
  /\ col.returned = <<>> /\ col.error.status = 404

====
